---- MODULE Spec2Model ----
(***************************************************************************)
(* Model of the recon orchestration core: the canonical store              *)
(* (core/project.py), the token-bucket limiter (core/rate_limiter.py),     *)
(* the process-launch primitive (core/runner.py) and the stage             *)
(* orchestrator (modules/recon.py).                                        *)
(*                                                                         *)
(* Text lines are sequences of tokens: a token is one character or one     *)
(* multi-character unit ("https://") that the string operations of the     *)
(* source treat as a whole.  Files are records: absent, or a sequence of   *)
(* lines.                                                                  *)
(***************************************************************************)
EXTENDS Integers, Sequences, FiniteSets, TLC

VARIABLES
    canon,        \* project_dir/<name>: the canonical files
    hist,         \* project_dir/history/<day>/<name>: the snapshot files
    today,        \* date.today(), as a day number
    new_count,    \* "new_count" of the last merge_into_canonical result
    lastBatch,    \* candidate_lines of the last merge_into_canonical call
    prevCanon,    \* the canonical file as the last merge found it
    merged,       \* a merge_into_canonical call has returned
    sameAsPrev,   \* the last merge got the batch of the merge before it
    limiter,      \* the GlobalRateLimiter instance (_global_rate_limiter)
    now,          \* time.time(), in ticks
    acq,          \* what the last acquire call saw and returned
    admitted,     \* the admissions so far: when (call time + wait), how many units
    args,         \* the parsed command line of the run (its stage flags)
    steps,        \* the stage set resolve_steps returned
    pc,           \* where run_cli is: "idle", a stage, "meta", "done", "aborted"
    wild,         \* the wildcard scope list (wild.txt) exists in the project
    run_meta,     \* history/<day>/run_meta.json: the "steps" it records
    outcome,      \* per stage of this run: what _run_wrapped logged
    missing,       \* per stage of this run: the tool or file a check found missing
    launched,     \* the run_command calls of this run, in order
    anomaly,      \* what goes wrong in this run
    runs,         \* the runs started so far
    merges,       \* the canonical files this run has passed to merge_into_canonical
    prior,        \* the targets given to the tools so far: stage, target, day
    lock,         \* GlobalRateLimiter.lock: the thread that holds it, if any
    proc          \* per concurrent thread or process: where it is, what it holds

fileVars == <<canon, hist, today, new_count, lastBatch, prevCanon, merged, sameAsPrev>>

limVars == <<limiter, now, acq, admitted>>

planVars == <<args, steps, pc>>

runVars == <<wild, run_meta, outcome, missing, launched, anomaly, runs, merges, prior>>

procVars == <<lock, proc>>

vars == <<canon, hist, today, new_count, lastBatch, prevCanon, merged, sameAsPrev,
          limiter, now, acq, admitted, args, steps, pc,
          wild, run_meta, outcome, missing, launched, anomaly, runs, merges, prior,
          lock, proc>>

----------------------------------------------------------------------------
(* Bounds *)

MaxBatch == 2
MaxDay == 2
MaxTime == 3
MaxCalls == 3
MaxRuns == 2
MaxIncrRuns == 3
MaxDebt == 4

Days == 1..MaxDay

----------------------------------------------------------------------------
(* Text *)

Whitespace == {" "}

RECURSIVE LStrip(_)
LStrip(s) ==
    IF s = <<>> THEN s
    ELSE IF Head(s) \in Whitespace THEN LStrip(Tail(s)) ELSE s

RECURSIVE RStrip(_)
RStrip(s) ==
    IF s = <<>> THEN s
    ELSE IF s[Len(s)] \in Whitespace THEN RStrip(SubSeq(s, 1, Len(s) - 1)) ELSE s

\* str.strip()
Strip(s) == RStrip(LStrip(s))

Range(s) == {s[i] : i \in 1..Len(s)}

SeqsUpTo(S, n) == UNION {[1..k -> S] : k \in 0..n}

----------------------------------------------------------------------------
(* Files (core/project.py) *)

Absent == [exists |-> FALSE, lines |-> <<>>]

File(ls) == [exists |-> TRUE, lines |-> ls]

CanonFiles == {"subs.txt", "alive.txt", "ports.txt", "dirs.txt", "params.txt",
               "js.txt", "secrets.txt", "nuclei.txt"}

DeltaFiles == {"new_subs.txt", "new_alive.txt", "new_ports.txt", "new_dirs.txt",
               "new_params.txt", "new_js.txt", "new_secrets.txt", "new_nuclei.txt"}

\* The stages' raw outputs, target lists and notes in a snapshot.
RawFiles == {"subfinder_subs.txt", "crt_subs.txt", "httpx_alive.txt",
             "naabu_ports.txt", "new_subs_for_ports.txt", "naabu_full.txt",
             "dirsearch.txt", "new_alive_for_dirs.txt", "params_raw.txt",
             "uro_in.txt", "params_filtered.txt", "secrets.txt", "nuclei.txt",
             "screenshots_note.txt", "temp_domains.txt", "new_subdomains.txt",
             "temp_alive_for_anew.txt"}

HistFiles == DeltaFiles \cup RawFiles

read_lines(f) == IF ~f.exists THEN <<>> ELSE f.lines

RECURSIVE CleanLines(_)
CleanLines(ls) ==
    IF ls = <<>> THEN <<>>
    ELSE LET s == Strip(Head(ls))
         IN  IF s = <<>> THEN CleanLines(Tail(ls))
             ELSE <<s>> \o CleanLines(Tail(ls))

write_lines(ls) == File(CleanLines(ls))

\* Mutant: a line the file holds when the append is made is not written again.
append_lines_not_held(f, ls) ==
    File(f.lines \o SelectSeq(CleanLines(ls), LAMBDA s : s \notin Range(f.lines)))

append_lines(f, ls) == File(f.lines \o CleanLines(ls))

RECURSIVE NewLinesFrom(_, _)
NewLinesFrom(existing_set, candidate_lines) ==
    IF candidate_lines = <<>> THEN <<>>
    ELSE LET line == Head(candidate_lines)
             s == Strip(line)
         IN  IF line = <<>> THEN NewLinesFrom(existing_set, Tail(candidate_lines))
             ELSE IF s = <<>> THEN NewLinesFrom(existing_set, Tail(candidate_lines))
             ELSE IF s \notin existing_set
                  THEN <<s>> \o NewLinesFrom(existing_set \cup {s}, Tail(candidate_lines))
                  ELSE NewLinesFrom(existing_set, Tail(candidate_lines))

ExistingSet(existing_lines) ==
    {Strip(existing_lines[i]) :
        i \in {j \in 1..Len(existing_lines) :
                  existing_lines[j] # <<>> /\ Strip(existing_lines[j]) # <<>>}}

\* Mutant: the existing lines are not consulted.
compute_new_lines_ignoring_existing(existing_lines, candidate_lines) ==
    NewLinesFrom({}, candidate_lines)

\* Mutant: a candidate is compared with the existing lines only, so that a
\* candidate repeated inside the batch is taken each time.
compute_new_lines_repeating(existing_lines, candidate_lines) ==
    SelectSeq(CleanLines(candidate_lines),
              LAMBDA s : s \notin ExistingSet(existing_lines))

compute_new_lines(existing_lines, candidate_lines) ==
    NewLinesFrom(ExistingSet(existing_lines), candidate_lines)

\* Mutant: the new lines go to the delta file only, never to the canonical file.
merge_without_append(canonical_file, candidate_lines) ==
    LET existing == read_lines(canonical_file)
        new_lines == compute_new_lines(existing, candidate_lines)
    IN  [delta |-> write_lines(new_lines),
         canonical |-> canonical_file,
         new_count |-> Len(new_lines)]

\* Mutant: the canonical file is written again in full, its old lines
\* followed by the new ones, whether or not there are new ones.
merge_rewriting_canonical(canonical_file, candidate_lines) ==
    LET existing == read_lines(canonical_file)
        new_lines == compute_new_lines(existing, candidate_lines)
    IN  [delta |-> write_lines(new_lines),
         canonical |-> write_lines(existing \o new_lines),
         new_count |-> Len(new_lines)]

\* The files and the return value that merge_into_canonical leaves behind.
merge_into_canonical(canonical_file, candidate_lines) ==
    LET existing == read_lines(canonical_file)
        new_lines == compute_new_lines(existing, candidate_lines)
    IN  [delta |-> write_lines(new_lines),
         canonical |-> IF new_lines # <<>>
                       THEN append_lines(canonical_file, new_lines)
                       ELSE canonical_file,
         new_count |-> Len(new_lines)]

----------------------------------------------------------------------------
(* The token bucket (core/rate_limiter.py).  Time is counted in ticks, rates *)
(* in tokens per tick; a call is modelled when its wait is a whole number of *)
(* ticks, so that every value of the model is the exact value of the code.   *)

ToolNames == {"httpx", "naabu"}

\* A falsy tool_name: None, as run_command passes for an empty command.
NoTool == ""

NoLimits == [t \in {} |-> 0]

\* GlobalRateLimiter.__init__
NewLimiter(requests_per_second, burst, t) ==
    [rps |-> requests_per_second,
     burst_capacity |-> burst,
     tokens |-> burst,
     last_update |-> t,
     tool_limits |-> NoLimits,
     enabled |-> TRUE]

\* Mutant: the wait is always computed with the global rate.
EffectiveRpsGlobalOnly(lim, tool_name) == lim.rps

\* Mutant: the limit of some tool is used whatever the tool.
EffectiveRpsAnyTool(lim, tool_name) ==
    IF DOMAIN lim.tool_limits # {}
    THEN lim.tool_limits[CHOOSE t \in DOMAIN lim.tool_limits : TRUE]
    ELSE lim.rps

\* self.tool_limits.get(tool_name, self.rps) if tool_name else self.rps
EffectiveRps(lim, tool_name) ==
    IF tool_name # NoTool
    THEN IF tool_name \in DOMAIN lim.tool_limits
         THEN lim.tool_limits[tool_name]
         ELSE lim.rps
    ELSE lim.rps

\* Mutant: the bucket is not clamped to burst_capacity.
RefilledUnclamped(lim, t) == lim.tokens + (t - lim.last_update) * lim.rps

\* self.tokens after the refill and the clamp
Refilled(lim, t) ==
    LET x == lim.tokens + (t - lim.last_update) * lim.rps
    IN  IF x > lim.burst_capacity THEN lim.burst_capacity ELSE x

\* The wait of the call is a whole number of ticks, or the call has no wait
\* to compute.
ExactWait(lim, tool_name, cost, t) ==
    \/ ~lim.enabled
    \/ Refilled(lim, t) >= cost
    \/ EffectiveRps(lim, tool_name) = 0
    \/ /\ EffectiveRps(lim, tool_name) > 0
       /\ (cost - Refilled(lim, t)) % EffectiveRps(lim, tool_name) = 0

\* Mutant: a call that finds enough tokens does not take them.
acquire_without_debit(lim, tool_name, cost, t) ==
    IF ~lim.enabled
    THEN [lim |-> lim, wait |-> 0, waited |-> FALSE, seen |-> lim.tokens,
          raised |-> FALSE]
    ELSE LET tk == Refilled(lim, t)
             effective_rps == EffectiveRps(lim, tool_name)
         IN  IF tk < cost /\ effective_rps # 0
             THEN [lim |-> [lim EXCEPT !.last_update = t + (cost - tk) \div effective_rps,
                                       !.tokens = 0],
                   wait |-> (cost - tk) \div effective_rps, waited |-> TRUE, seen |-> tk,
                   raised |-> FALSE]
             ELSE [lim |-> [lim EXCEPT !.tokens = tk, !.last_update = t],
                   wait |-> 0, waited |-> FALSE, seen |-> tk, raised |-> tk < cost]

\* GlobalRateLimiter.acquire at time t: the limiter it leaves and its result.
\* The division by an effective rate of 0 raises ZeroDivisionError, after the
\* refill has been stored.
acquire(lim, tool_name, cost, t) ==
    IF ~lim.enabled
    THEN [lim |-> lim, wait |-> 0, waited |-> FALSE, seen |-> lim.tokens,
          raised |-> FALSE]
    ELSE LET tk == Refilled(lim, t)
             effective_rps == EffectiveRps(lim, tool_name)
         IN  IF tk < cost
             THEN IF effective_rps = 0
                  THEN [lim |-> [lim EXCEPT !.tokens = tk],
                        wait |-> 0, waited |-> FALSE, seen |-> tk, raised |-> TRUE]
                  ELSE LET wait_time == (cost - tk) \div effective_rps
                       IN  [lim |-> [lim EXCEPT !.last_update = t + wait_time,
                                                !.tokens = 0],
                            wait |-> wait_time, waited |-> TRUE, seen |-> tk,
                            raised |-> FALSE]
             ELSE [lim |-> [lim EXCEPT !.tokens = tk - cost, !.last_update = t],
                   wait |-> 0, waited |-> FALSE, seen |-> tk, raised |-> FALSE]

\* GlobalRateLimiter.set_tool_limit
set_tool_limit(lim, tool_name, requests_per_second) ==
    [lim EXCEPT !.tool_limits =
        [x \in DOMAIN lim.tool_limits \cup {tool_name} |->
            IF x = tool_name THEN requests_per_second ELSE lim.tool_limits[x]]]

\* GlobalRateLimiter.set_global_rate
set_global_rate(lim, requests_per_second) == [lim EXCEPT !.rps = requests_per_second]

NoAcquire == [called |-> FALSE]

\* What a call of acquire saw: whether the limiter was enabled, the tokens and
\* the time since last_update before the refill, the capacity, the limit set
\* for its tool (0: none) and the global rate in force, the tokens after the
\* refill, and what it returned.
AcquireRecord(lim, tool_name, cost, t, r) ==
    [called |-> TRUE, tool |-> tool_name, cost |-> cost,
     enabled |-> lim.enabled,
     before |-> lim.tokens, elapsed |-> t - lim.last_update,
     burst |-> lim.burst_capacity,
     limit |-> IF tool_name \in DOMAIN lim.tool_limits
               THEN lim.tool_limits[tool_name] ELSE 0,
     rps |-> lim.rps,
     tokens |-> r.seen, waited |-> r.waited, wait |-> r.wait, raised |-> r.raised]

Horizon == 2 * MaxTime

\* One call of acquire at the current time.
AcquireStep(tool_name, cost) ==
    LET r == acquire(limiter, tool_name, cost, now)
    IN  /\ ExactWait(limiter, tool_name, cost, now)
        /\ r.lim.last_update <= Horizon
        /\ limiter' = r.lim
        /\ acq' = AcquireRecord(limiter, tool_name, cost, now, r)
        /\ UNCHANGED now

Acquire(tool_name, cost) ==
    /\ AcquireStep(tool_name, cost)
    /\ UNCHANGED admitted

\* The same call, with its admission recorded.
AcquireLogged(tool_name, cost) ==
    /\ Len(admitted) < MaxCalls
    /\ AcquireStep(tool_name, cost)
    /\ admitted' = Append(admitted,
                          [at |-> now + acq'.wait, units |-> cost,
                           rate |-> EffectiveRps(limiter, tool_name)])

SetToolLimit(tool_name, r) ==
    /\ limiter' = set_tool_limit(limiter, tool_name, r)
    /\ UNCHANGED <<now, acq, admitted>>

SetGlobalRate(r) ==
    /\ limiter' = set_global_rate(limiter, r)
    /\ UNCHANGED <<now, acq, admitted>>

\* GlobalRateLimiter.disable
Disable ==
    /\ limiter' = [limiter EXCEPT !.enabled = FALSE]
    /\ UNCHANGED <<now, acq, admitted>>

\* GlobalRateLimiter.enable
Enable ==
    /\ limiter' = [limiter EXCEPT !.enabled = TRUE]
    /\ UNCHANGED <<now, acq, admitted>>

\* Time passes.
Tick ==
    /\ now < MaxTime
    /\ now' = now + 1
    /\ UNCHANGED <<limiter, acq, admitted>>

\* One thread, one process: nobody holds the lock of the limiter, and no
\* concurrent caller is anywhere.
Procs == {1, 2}

NoHolder == 0

Idle == [pc |-> "idle"]

InitProcsIdle ==
    /\ lock = NoHolder
    /\ proc = [p \in Procs |-> Idle]

\* No run has started.
InitRunIdle ==
    /\ wild = FALSE
    /\ run_meta = [d \in Days |-> [exists |-> FALSE, steps |-> {}]]
    /\ outcome = [st \in {} |-> ""]
    /\ missing = [st \in {} |-> ""]
    /\ launched = <<>>
    /\ anomaly = [at |-> "", kind |-> "none"]
    /\ runs = 0
    /\ merges = {}
    /\ prior = {}
    /\ InitProcsIdle

InitPlanIdle ==
    /\ args = [full |-> FALSE, stages |-> {}]
    /\ steps = {}
    /\ pc = "idle"
    /\ InitRunIdle

InitFilesIdle ==
    /\ canon = [f \in CanonFiles |-> Absent]
    /\ hist = [d \in Days |-> [f \in HistFiles |-> Absent]]
    /\ today = 1
    /\ new_count = 0
    /\ lastBatch = <<>>
    /\ prevCanon = Absent
    /\ merged = FALSE
    /\ sameAsPrev = FALSE

Costs == {1, 2, 3}

BucketRps == 2

BucketBurst == 2

\* The tool limits a configuration may have set before the calls begin.
BucketLimits == {NoLimits, [t \in {"httpx"} |-> 1], [t \in {"httpx"} |-> 4]}

InitLimiterWith(limits) ==
    /\ now = 0
    /\ limiter = [NewLimiter(BucketRps, BucketBurst, 0) EXCEPT !.tool_limits = limits]
    /\ acq = NoAcquire
    /\ admitted = <<>>

(* The bucket under acquire calls alone: any tool, any cost, any call time. *)
InitBucket ==
    /\ InitFilesIdle
    /\ InitPlanIdle
    /\ \E limits \in BucketLimits : InitLimiterWith(limits)

NextBucket ==
    \/ \E tool \in {"httpx", NoTool}, cost \in Costs :
          AcquireLogged(tool, cost) /\ UNCHANGED <<fileVars, planVars, runVars, procVars>>
    \/ Tick /\ UNCHANGED <<fileVars, planVars, runVars, procVars>>

SpecBucket == InitBucket /\ [][NextBucket]_vars

RECURSIVE UnitsIn(_, _, _)
UnitsIn(log, lo, hi) ==
    IF log = <<>> THEN 0
    ELSE (IF lo <= Head(log).at /\ Head(log).at <= hi THEN Head(log).units ELSE 0)
         + UnitsIn(Tail(log), lo, hi)

\* In every window that begins and ends with an admission, the units
\* admitted are at most burst_capacity + rps * (length of the window).
WindowBound ==
    \A i, j \in 1..Len(admitted) :
        admitted[i].at <= admitted[j].at =>
            UnitsIn(admitted, admitted[i].at, admitted[j].at)
                <= limiter.burst_capacity
                   + limiter.rps * (admitted[j].at - admitted[i].at)

WithinBucket ==
    \A k \in 1..Len(admitted) :
        /\ admitted[k].units <= limiter.burst_capacity
        /\ admitted[k].rate <= limiter.rps

ToolRates == {1, 4}

GlobalRates == {2, 4}

InitLimiter ==
    /\ InitFilesIdle
    /\ InitPlanIdle
    /\ InitLimiterWith(NoLimits)

NextLimiter ==
    \/ \E tool \in ToolNames \cup {NoTool}, cost \in {1, 3} :
          Acquire(tool, cost) /\ UNCHANGED <<fileVars, planVars, runVars, procVars>>
    \/ \E tool \in ToolNames, r \in ToolRates : SetToolLimit(tool, r) /\ UNCHANGED <<fileVars, planVars, runVars, procVars>>
    \/ \E r \in GlobalRates : SetGlobalRate(r) /\ UNCHANGED <<fileVars, planVars, runVars, procVars>>
    \/ Disable /\ UNCHANGED <<fileVars, planVars, runVars, procVars>>
    \/ Enable /\ UNCHANGED <<fileVars, planVars, runVars, procVars>>
    \/ Tick /\ UNCHANGED <<fileVars, planVars, runVars, procVars>>

SpecLimiter == InitLimiter /\ [][NextLimiter]_vars

\* C8: an acquire that has to wait returns (cost - tokens) / r, with r the
\* limit set for its tool when there is one and the global rate otherwise.
C8_WaitUsesToolLimit ==
    (acq.called /\ acq.waited) =>
        IF acq.limit # 0
        THEN acq.wait * acq.limit = acq.cost - acq.tokens
        ELSE acq.wait * acq.rps = acq.cost - acq.tokens

\* C8 witness: a call for a tool whose limit differs from the global rate
\* has been made to wait.
C8_Witness ==
    /\ acq.called
    /\ acq.waited
    /\ acq.limit # 0
    /\ acq.limit # acq.rps
    /\ acq.wait > 0

----------------------------------------------------------------------------
(* Stage resolution (modules/recon.py, resolve_steps).  args holds the      *)
(* --full flag and the set of stage flags that are set.                     *)

StageOrder == <<"subs", "alive", "ports_scan", "dirs", "params", "secrets",
                "nuclei", "screens">>

Stages == Range(StageOrder)

AllArgs == [full : BOOLEAN, stages : SUBSET Stages]

\* Mutant: no baseline, a run without flags has no stage.
resolve_steps_no_default(a) ==
    IF a.full THEN Stages ELSE a.stages

resolve_steps(a) ==
    IF a.full
    THEN {"subs", "alive", "ports_scan", "dirs", "params", "secrets", "nuclei", "screens"}
    ELSE LET flagged == {st \in {"subs", "alive", "ports_scan", "dirs", "params",
                                 "secrets", "nuclei", "screens"} : st \in a.stages}
         IN  IF flagged = {} THEN {"subs", "alive"} ELSE flagged

(* resolve_steps on every command line. *)
InitResolve ==
    /\ InitFilesIdle
    /\ InitLimiterWith(NoLimits)
    /\ args \in AllArgs
    /\ steps = {}
    /\ pc = "idle"
    /\ InitRunIdle

Resolve ==
    /\ pc = "idle"
    /\ steps' = resolve_steps(args)
    /\ pc' = "resolved"
    /\ UNCHANGED <<fileVars, limVars, args, runVars, procVars>>

NextResolve == Resolve

SpecResolve == InitResolve /\ [][NextResolve]_vars

\* C9: resolve_steps returns all eight stages when --full is set, otherwise
\* the stages whose flags are set, and subs and alive when none is; it never
\* returns the empty set.
C9_ResolveSteps ==
    pc = "resolved" =>
        /\ args.full => steps = Stages
        /\ (~args.full /\ args.stages # {}) => steps = args.stages
        /\ (~args.full /\ args.stages = {}) => steps = {"subs", "alive"}
        /\ steps # {}

\* C9 witness: --full given together with a single stage flag resolves to
\* the complete stage set.
C9_Witness ==
    /\ pc = "resolved"
    /\ args.full
    /\ args.stages = {"dirs"}
    /\ steps = Stages
    /\ Cardinality(steps) = 8

----------------------------------------------------------------------------
(* Specification of the canonical store: one process merging candidate     *)
(* batches into subs.txt.                                                  *)

MergeLines == {<<"a">>, <<"b", " ">>, <<"c">>, <<>>, <<" ">>}

\* The candidate batch of the documented scenario: ["b", "c", ""].
ScenarioBatch == <<<<"b">>, <<"c">>, <<>>>>

Batches == SeqsUpTo(MergeLines, MaxBatch) \cup {ScenarioBatch}

\* The canonical file a first merge can find: none, an empty one, or one a
\* user has put there (duplicate-free, its line not trimmed).
InitCanonical == {Absent, File(<<>>), File(<<<<"b", " ">>>>)}

InitMerge ==
    /\ today = 1
    /\ hist = [d \in Days |-> [f \in HistFiles |-> Absent]]
    /\ \E f \in InitCanonical :
          canon = [c \in CanonFiles |-> IF c = "subs.txt" THEN f ELSE Absent]
    /\ InitLimiterWith(NoLimits)
    /\ InitPlanIdle
    /\ new_count = 0
    /\ lastBatch = <<>>
    /\ prevCanon = Absent
    /\ merged = FALSE
    /\ sameAsPrev = FALSE

Merge(X) ==
    LET r == merge_into_canonical(canon["subs.txt"], X)
    IN  /\ canon' = [canon EXCEPT !["subs.txt"] = r.canonical]
        /\ hist' = [hist EXCEPT ![today]["new_subs.txt"] = r.delta]
        /\ new_count' = r.new_count
        /\ lastBatch' = X
        /\ prevCanon' = canon["subs.txt"]
        /\ merged' = TRUE
        /\ sameAsPrev' = (merged /\ X = lastBatch)
        /\ UNCHANGED <<today, limVars, planVars, runVars, procVars>>

NextMerge == \E X \in Batches : Merge(X)

SpecMerge == InitMerge /\ [][NextMerge]_vars

NoDuplicate(ls) ==
    \A i, j \in 1..Len(ls) : i # j => Strip(ls[i]) # Strip(ls[j])

\* C1: the canonical file never holds the same trimmed line twice, and every
\* line it held when a merge began is still in it when that merge has ended
\* (so a line, once present, is present after every later merge).
C1_NoDuplicateAndPermanent ==
    /\ NoDuplicate(canon["subs.txt"].lines)
    /\ Range(prevCanon.lines) \subseteq Range(canon["subs.txt"].lines)

\* C1 witness: a second or later merge has grown a non-empty canonical file
\* to three lines.
C1_Witness ==
    /\ merged
    /\ Len(prevCanon.lines) = 2
    /\ Len(canon["subs.txt"].lines) = 3

\* C2: when a merge gets the batch the merge before it got, it returns
\* new_count 0 and leaves the canonical file as it found it.
C2_Idempotent ==
    sameAsPrev => (new_count = 0 /\ canon["subs.txt"] = prevCanon)

\* C2 witness: a batch with new lines has been merged twice in a row.
C2_Witness ==
    /\ sameAsPrev
    /\ \E i \in 1..Len(lastBatch) : Strip(lastBatch[i]) \in Range(canon["subs.txt"].lines)
    /\ Len(canon["subs.txt"].lines) >= 2

TrimmedCandidates(X) == {Strip(X[i]) : i \in 1..Len(X)} \ {<<>>}

FirstIndex(X, s) ==
    CHOOSE i \in 1..Len(X) : Strip(X[i]) = s /\ \A j \in 1..(i - 1) : Strip(X[j]) # s

IsDeltaOf(d, S, X) ==
    /\ Range(d) = TrimmedCandidates(X) \ S
    /\ \A i, j \in 1..Len(d) :
          i < j => (d[i] # d[j] /\ FirstIndex(X, d[i]) < FirstIndex(X, d[j]))

\* C3: every merge writes the delta file; it holds the distinct trimmed
\* non-empty candidates that the canonical file did not hold, each once, in
\* order of first occurrence, and new_count is its number of lines.
C3_DeltaExact ==
    merged =>
        /\ hist[today]["new_subs.txt"].exists
        /\ IsDeltaOf(hist[today]["new_subs.txt"].lines,
                     TrimmedCandidates(prevCanon.lines), lastBatch)
        /\ new_count = Len(hist[today]["new_subs.txt"].lines)

\* C3 witness: the documented scenario, canonical [a, b] and batch [b, c, ""].
C3_Witness ==
    /\ merged
    /\ prevCanon = File(<<<<"a">>, <<"b">>>>)
    /\ lastBatch = ScenarioBatch
    /\ hist[today]["new_subs.txt"] = File(<<<<"c">>>>)
    /\ new_count = 1
    /\ canon["subs.txt"] = File(<<<<"a">>, <<"b">>, <<"c">>>>)

(***************************************************************************)
(* The run (modules/recon.py): run_cli resolves the plan, runs the         *)
(* selected stages in order through _run_wrapped, and writes the manifest. *)
(* A stage is one step: its checks, its launches, its files, its merge.    *)
(***************************************************************************)

\* URL schemes are single tokens.
Schemes == {"https://", "http://"}

\* "http" in line
ContainsHttp(line) == \E i \in 1..Len(line) : line[i] \in Schemes \cup {"http"}

HasScheme(line) == \E i \in 1..Len(line) : line[i] \in Schemes

FirstScheme(line) ==
    CHOOSE i \in 1..Len(line) :
        line[i] \in Schemes /\ \A j \in 1..(i - 1) : line[j] \notin Schemes

\* line.split("://")[1]: the text between the first "://" and the next one,
\* which leaves the next scheme's name without its "://".
AfterScheme(line) ==
    LET rest == SubSeq(line, FirstScheme(line) + 1, Len(line))
    IN  IF HasScheme(rest)
        THEN SubSeq(rest, 1, FirstScheme(rest) - 1)
                 \o << IF rest[FirstScheme(rest)] = "https://" THEN "https" ELSE "http" >>
        ELSE rest

\* s.split("/")[0]
BeforeSlash(s) ==
    IF \E i \in 1..Len(s) : s[i] = "/"
    THEN SubSeq(s, 1, (CHOOSE i \in 1..Len(s) :
                           s[i] = "/" /\ \A j \in 1..(i - 1) : s[j] # "/") - 1)
    ELSE s

\* s.replace("https://", "").replace("http://", "")
WithoutSchemes(s) ==
    LET NotScheme(x) == x \notin Schemes
    IN  SelectSeq(s, NotScheme)

\* url.replace("https://", "").replace("http://", "").split("/")[0].strip()
HostOf(url) == Strip(BeforeSlash(WithoutSchemes(url)))

\* json.loads(line).get("host", ""): a line {"host": <host>} gives its host,
\* any other line gives none (no host field, or JSONDecodeError).
JsonHost(line) ==
    IF Len(line) >= 2 /\ line[1] = "{host:" /\ line[Len(line)] = "}"
    THEN SubSeq(line, 2, Len(line) - 1)
    ELSE <<>>

\* u.lower().endswith(".js")
EndsWithJs(u) == u # <<>> /\ u[Len(u)] \in {".js", ".JS"}

\* The first whitespace-separated part of line that starts with "http".
FirstHttpPart(line) ==
    LET Starts(i) == /\ line[i] \in Schemes \cup {"http"}
                     /\ (i = 1 \/ line[i - 1] \in Whitespace)
        i == CHOOSE k \in 1..Len(line) : Starts(k) /\ \A j \in 1..(k - 1) : ~Starts(j)
        rest == SubSeq(line, i, Len(line))
    IN  IF \E k \in 1..Len(rest) : rest[k] \in Whitespace
        THEN SubSeq(rest, 1, (CHOOSE k \in 1..Len(rest) :
                 rest[k] \in Whitespace /\ \A j \in 1..(k - 1) : rest[j] \notin Whitespace) - 1)
        ELSE rest

HasHttpPart(line) ==
    \E i \in 1..Len(line) :
        line[i] \in Schemes \cup {"http"} /\ (i = 1 \/ line[i - 1] \in Whitespace)

StrippedLines(f) == {Strip(f.lines[i]) : i \in 1..Len(f.lines)}

\* previously_alive of run_alive_check
previously_alive(f) == Range(read_lines(f))

\* previously_scanned of run_ports_scan
previously_scanned_hosts(f) == {JsonHost(l) : l \in StrippedLines(f)} \ {<<>>}

\* The lines run_dirsearch ("#") and run_nuclei ("[") scrape a host from.
Scraped(f, skip) == {l \in StrippedLines(f) : l # <<>> /\ l[1] # skip /\ ContainsHttp(l)}

\* line.split("://")[1] raises IndexError on a line without "://".
ScrapeRaises(f, skip) == \E l \in Scraped(f, skip) : ~HasScheme(l)

ScrapedHosts(f, skip) ==
    {Strip(BeforeSlash(AfterScheme(l))) : l \in {x \in Scraped(f, skip) : HasScheme(x)}} \ {<<>>}

previously_scanned_dirs(f) == ScrapedHosts(f, "#")

previously_scanned_nuclei(f) == ScrapedHosts(f, "[")

\* previously_processed_urls of run_param_mining
previously_processed_urls(f) == {HostOf(l) : l \in StrippedLines(f) \ {<<>>}} \ {<<>>}

\* previously_scanned of run_secretfinder
previously_scanned_js(f) ==
    {FirstHttpPart(l) : l \in {x \in StrippedLines(f) : ContainsHttp(x) /\ HasHttpPart(x)}}

Max(S) == CHOOSE x \in S : \A y \in S : y <= x

\* No previous snapshot: the stage takes its first-run branch.
NoDay == 0

\* The history directories that hold the marker file.
MarkerDirs(marker) == {d \in Days : hist[d][marker].exists}

\* The snapshot a stage compares with: there must be more than one directory
\* with the marker, and one of them other than today's.
previous_dir(marker) ==
    IF Cardinality(MarkerDirs(marker)) > 1 /\ MarkerDirs(marker) \ {today} # {}
    THEN Max(MarkerDirs(marker) \ {today})
    ELSE NoDay

\* The marker file of each stage that computes a target list.
MarkerOf ==
    [st \in {"alive", "ports_scan", "dirs", "params", "secrets", "nuclei"} |->
        CASE st = "alive" -> "httpx_alive.txt"
          [] st = "ports_scan" -> "naabu_ports.txt"
          [] st = "dirs" -> "dirsearch.txt"
          [] st = "params" -> "params_raw.txt"
          [] st = "secrets" -> "secrets.txt"
          [] OTHER -> "nuclei.txt"]

\* The keys the stage extracts from the marker file of a snapshot.
SeenBy(st, f) ==
    CASE st = "alive" -> previously_alive(f)
      [] st = "ports_scan" -> previously_scanned_hosts(f)
      [] st = "dirs" -> previously_scanned_dirs(f)
      [] st = "params" -> previously_processed_urls(f)
      [] st = "secrets" -> previously_scanned_js(f)
      [] OTHER -> previously_scanned_nuclei(f)

\* The key of a candidate: the candidate itself, or its host.
KeyBy(st, c) == IF st \in {"alive", "ports_scan", "secrets"} THEN c ELSE HostOf(c)

\* Mutant: the keys of the previous snapshot are not subtracted.
IncrementalUnfiltered(st, cfile) ==
    [incremental |-> previous_dir(MarkerOf[st]) # NoDay,
     lines |-> cfile.lines,
     candidates |-> Range(read_lines(cfile)),
     markers |-> MarkerDirs(MarkerOf[st])]

\* The target list of a stage: the lines of the canonical file on a first run,
\* otherwise the candidates whose key the previous snapshot does not hold
\* (for the stages that compare hosts: and whose host is not empty).
Incremental(st, cfile) ==
    LET prev == previous_dir(MarkerOf[st])
        Keep(x) == /\ st \in {"dirs", "params", "nuclei"} => KeyBy(st, x) # <<>>
                   /\ KeyBy(st, x) \notin SeenBy(st, hist[prev][MarkerOf[st]])
    IN  [incremental |-> prev # NoDay,
         lines |-> IF prev = NoDay THEN cfile.lines
                   ELSE SelectSeq(read_lines(cfile), Keep),
         candidates |-> Range(read_lines(cfile)),
         markers |-> MarkerDirs(MarkerOf[st])]

\* What a stage has in hand when it starts.
Here ==
    [canon |-> canon, h |-> hist[today], lim |-> limiter, t |-> now,
     launches |-> <<>>, exact |-> TRUE, merges |-> {}]

\* The stage ends: it returned ("ok"), raised SystemExit ("exit") or raised
\* another exception ("fail"); miss is the tool or file a check found missing.
Returned(S, result, miss) ==
    [result |-> result, miss |-> miss, canon |-> S.canon, h |-> S.h,
     lim |-> S.lim, t |-> S.t, launches |-> S.launches, exact |-> S.exact,
     merges |-> S.merges]

\* runner.run_command: the acquire when apply_rate_limit is set, the sleep,
\* the launch.  sel describes the target list the command is given.
run_command(S, stage, tool, apply_rate_limit, targets, sel, rc) ==
    LET r == IF apply_rate_limit
             THEN acquire(S.lim, tool, 1, S.t)
             ELSE [lim |-> S.lim, wait |-> 0]
    IN  [S EXCEPT !.lim = r.lim,
                  !.t = S.t + r.wait,
                  !.exact = S.exact /\ (apply_rate_limit => ExactWait(S.lim, tool, 1, S.t)),
                  !.launches = Append(@,
                      [stage |-> stage, tool |-> tool, limited |-> apply_rate_limit,
                       wait |-> r.wait, at |-> S.t + r.wait, rc |-> rc,
                       targets |-> Range(targets),
                       incremental |-> sel.incremental,
                       candidates |-> sel.candidates,
                       markers |-> sel.markers])]

\* A launch that is given no target list computed from a snapshot.
NoSelection == [incremental |-> FALSE, candidates |-> {}, markers |-> {}]

\* The file a tool was told to write with -o: replaced when the tool wrote it.
WithOutput(S, name, run) ==
    IF run.out.exists THEN [S EXCEPT !.h[name] = run.out] ELSE S

\* merge_into_canonical on a canonical file and today's delta file
Merged(S, canonical_file, delta_file_name, candidate_lines) ==
    LET m == merge_into_canonical(S.canon[canonical_file], candidate_lines)
    IN  [S EXCEPT !.canon[canonical_file] = m.canonical,
                  !.h[delta_file_name] = m.delta,
                  !.merges = @ \cup {canonical_file}]

\* The tools a stage checks for, and the launches it makes.
StageTools ==
    [st \in Stages |->
        CASE st = "subs" -> {"subfinder"}
          [] st = "alive" -> {"httpx"}
          [] st = "ports_scan" -> {"naabu", "nmap"}
          [] st = "dirs" -> {"dirsearch", "wordlist"}
          [] st = "params" -> {"gau", "uro"}
          [] st = "secrets" -> {"python3", "secretfinder"}
          [] st = "nuclei" -> {"nuclei"}
          [] OTHER -> {}]

StageLaunches ==
    [st \in Stages |->
        CASE st = "subs" -> {"subfinder", "crt.sh"}
          [] st = "alive" -> {"httpx"}
          [] st = "ports_scan" -> {"naabu", "naabu -nmap-cli"}
          [] st = "dirs" -> {"dirsearch"}
          [] st = "params" -> {"bash", "uro"}
          [] st = "secrets" -> {"python3"}
          [] st = "nuclei" -> {"nuclei"}
          [] OTHER -> {}]

\* What can go wrong in a run.  At most one thing does: a stage raises an
\* exception ("fault"), a tool is not installed ("absent"), or a launch is
\* not found (127), fails (1), times out (124) or finds nothing ("empty").
NoAnomaly == [at |-> "", kind |-> "none"]

Anomalies(plan) ==
    {NoAnomaly}
    \cup {[at |-> st, kind |-> "fault"] : st \in plan}
    \cup {[at |-> t, kind |-> "absent"] : t \in UNION {StageTools[st] : st \in plan}}
    \cup {[at |-> l, kind |-> k] : l \in UNION {StageLaunches[st] : st \in plan},
                                   k \in {"notfound", "failed", "timeout", "empty"}}

\* command_exists / command_exists_with_installer
Present(tool) == anomaly # [at |-> tool, kind |-> "absent"]

Fault(stage) == anomaly = [at |-> stage, kind |-> "fault"]

\* Mutant: a timeout is reported with the return code of a failure.
StdoutRunTimeoutAsFailure(launch, lines) ==
    IF anomaly.at # launch THEN [rc |-> 0, out |-> lines]
    ELSE CASE anomaly.kind = "notfound" -> [rc |-> 127, out |-> <<>>]
           [] anomaly.kind = "failed" -> [rc |-> 1, out |-> <<>>]
           [] anomaly.kind = "timeout" -> [rc |-> 1, out |-> lines]
           [] anomaly.kind = "empty" -> [rc |-> 0, out |-> <<>>]
           [] OTHER -> [rc |-> 0, out |-> lines]

\* The return code of a launch and what it printed, of the lines it prints
\* when all goes well.
StdoutRun(launch, lines) ==
    IF anomaly.at # launch THEN [rc |-> 0, out |-> lines]
    ELSE CASE anomaly.kind = "notfound" -> [rc |-> 127, out |-> <<>>]
           [] anomaly.kind = "failed" -> [rc |-> 1, out |-> <<>>]
           [] anomaly.kind = "timeout" -> [rc |-> 124, out |-> lines]
           [] anomaly.kind = "empty" -> [rc |-> 0, out |-> <<>>]
           [] OTHER -> [rc |-> 0, out |-> lines]

\* The same for a launch that writes a file: no file when it did not start
\* or failed.
FileRun(launch, lines) ==
    LET r == StdoutRun(launch, lines)
    IN  [rc |-> r.rc, out |-> IF r.rc \in {1, 127} THEN Absent ELSE File(r.out)]

\* The hosts that answer.
Responsive == {<<"h1">>}

IsResponsive(x) == Strip(x) \in Responsive

\* What the tools print for the targets they are given.
SubfinderOut == << <<"h1">> >>

CrtOut == (StdoutRun("crt.sh", << <<"h2">> >>)).out

HttpxOut(targets) ==
    LET up == SelectSeq(targets, IsResponsive)
    IN  [i \in 1..Len(up) |-> <<"https://">> \o Strip(up[i])]

NaabuOut(targets) ==
    LET up == SelectSeq(targets, IsResponsive)
    IN  [i \in 1..Len(up) |-> <<"{host:">> \o Strip(up[i]) \o <<"}">>]

NmapOut(targets) ==
    LET up == SelectSeq(targets, IsResponsive)
    IN  [i \in 1..Len(up) |-> Strip(up[i]) \o <<":", "80">>]

DirsearchOut(targets) ==
    [i \in 1..Len(targets) |-> Strip(targets[i]) \o <<"/", "admin">>]

GauOut(targets) ==
    [i \in 1..Len(targets) |-> Strip(targets[i]) \o <<"/", "a", ".js">>]

SecretOut == << <<"key">> >>

NucleiOut(targets) ==
    [i \in 1..Len(targets) |-> <<"[", "cve", "]", " ">> \o Strip(targets[i])]

\* run_subdomain_enum.  The fault: ensure_dir raises.  The steps, last first:
\* the merge of what was found, the read of subfinder's file, the launch.
run_subdomain_enum ==
    LET present == Present("subfinder")
        Finish(S1, found, crt_lines) ==
            Returned(Merged([S1 EXCEPT !.h["crt_subs.txt"] = write_lines(crt_lines)],
                            "subs.txt", "new_subs.txt", found \o crt_lines),
                     "ok", IF present THEN "" ELSE "subfinder")
        Found(S1) ==
            Finish(S1,
                  IF present /\ S1.h["subfinder_subs.txt"].exists
                  THEN CleanLines(S1.h["subfinder_subs.txt"].lines)
                  ELSE <<>>,
                  CrtOut)
        Enumerate(run) ==
            Found(IF present
                  THEN WithOutput(run_command(Here, "subs", "subfinder", TRUE,
                                              <<>>, NoSelection, run.rc),
                                  "subfinder_subs.txt", run)
                  ELSE Here)
    IN  IF Fault("subs") THEN Returned(Here, "fail", "")
        ELSE IF ~wild THEN Returned(Here, "exit", "wild.txt")
        ELSE Enumerate(FileRun("subfinder", SubfinderOut))

\* run_alive_check.  The fault: listing the history directory raises.  The
\* steps, last first: the launch of httpx and the merge, the temporary file of
\* the new targets, the choice of the targets.
run_alive_check ==
    LET Probe(S0, target, sel, run) ==
            Returned(Merged([run_command(S0, "alive", "httpx", TRUE, target, sel, run.rc)
                                EXCEPT !.h["httpx_alive.txt"] = write_lines(run.out)],
                            "alive.txt", "new_alive.txt", run.out),
                     "ok", "")
        Scan(S0, target, sel) == Probe(S0, target, sel, StdoutRun("httpx", HttpxOut(target)))
        OnNew(S0, sel) == Scan(S0, S0.h["new_subs.txt"].lines, sel)
        Select(sel) ==
            IF sel.incremental /\ sel.lines = <<>> THEN Returned(Here, "ok", "")
            ELSE IF sel.incremental
                 THEN OnNew([Here EXCEPT !.h["new_subs.txt"] = write_lines(sel.lines)], sel)
                 ELSE Scan(Here, sel.lines, sel)
    IN  IF ~canon["subs.txt"].exists THEN Returned(Here, "exit", "subs.txt")
        ELSE IF ~Present("httpx") THEN Returned(Here, "ok", "httpx")
        ELSE IF Fault("alive") THEN Returned(Here, "fail", "")
        ELSE Select(Incremental("alive", canon["subs.txt"]))

\* run_ports_scan.  The steps, last first: the merge of the full scan, the
\* second launch of naabu, the checks after the first launch, the first
\* launch, the temporary file of the new targets, the choice of the targets.
run_ports_scan ==
    LET Full(S2) ==
            Returned(Merged(S2, "ports.txt", "new_ports.txt",
                            IF S2.h["naabu_full.txt"].exists
                            THEN CleanLines(S2.h["naabu_full.txt"].lines)
                            ELSE <<>>),
                     "ok", "")
        Second(S1, target, sel, run2) ==
            Full(WithOutput(run_command(S1, "ports_scan", "naabu", FALSE,
                                        target, sel, run2.rc),
                            "naabu_full.txt", run2))
        AfterFirst(S1, target, sel, run1) ==
            IF run1.rc # 0 THEN Returned(S1, "ok", "")
            ELSE IF ~Present("nmap") THEN Returned(S1, "ok", "nmap")
            ELSE Second(S1, target, sel, FileRun("naabu -nmap-cli", NmapOut(target)))
        First(S0, target, sel, run1) ==
            AfterFirst(WithOutput(run_command(S0, "ports_scan", "naabu", FALSE,
                                              target, sel, run1.rc),
                                  "naabu_ports.txt", run1),
                       target, sel, run1)
        Scan(S0, target, sel) == First(S0, target, sel, FileRun("naabu", NaabuOut(target)))
        OnNew(S0, sel) == Scan(S0, S0.h["new_subs_for_ports.txt"].lines, sel)
        Select(sel) ==
            IF sel.incremental /\ sel.lines = <<>> THEN Returned(Here, "ok", "")
            ELSE IF sel.incremental
                 THEN OnNew([Here EXCEPT !.h["new_subs_for_ports.txt"] =
                                             write_lines(sel.lines)], sel)
                 ELSE Scan(Here, sel.lines, sel)
    IN  IF ~canon["subs.txt"].exists THEN Returned(Here, "exit", "subs.txt")
        ELSE IF ~Present("naabu") THEN Returned(Here, "ok", "naabu")
        ELSE IF Fault("ports_scan") THEN Returned(Here, "fail", "")
        ELSE Select(Incremental("ports_scan", canon["subs.txt"]))

\* run_dirsearch.  The steps, last first: the merge of dirsearch's file, the
\* launch, the check of the wordlist, the temporary file of the new targets,
\* the choice of the targets.
run_dirsearch ==
    LET Finish(S1) ==
            Returned(Merged(S1, "dirs.txt", "new_dirs.txt",
                            read_lines(S1.h["dirsearch.txt"])),
                     "ok", "")
        Launch(S0, target, sel, run) ==
            Finish(WithOutput(run_command(S0, "dirs", "dirsearch", TRUE,
                                         target, sel, run.rc),
                             "dirsearch.txt", run))
        Scan(S0, target, sel) ==
            IF ~Present("wordlist") THEN Returned(S0, "ok", "wordlist")
            ELSE Launch(S0, target, sel, FileRun("dirsearch", DirsearchOut(target)))
        OnNew(S0, sel) == Scan(S0, S0.h["new_alive_for_dirs.txt"].lines, sel)
        Select(sel) ==
            IF sel.incremental /\ sel.lines = <<>> THEN Returned(Here, "ok", "")
            ELSE IF sel.incremental
                 THEN OnNew([Here EXCEPT !.h["new_alive_for_dirs.txt"] =
                                             write_lines(sel.lines)], sel)
                 ELSE Scan(Here, sel.lines, sel)
    IN  IF ~canon["alive.txt"].exists THEN Returned(Here, "exit", "alive.txt")
        ELSE IF ~Present("dirsearch") THEN Returned(Here, "ok", "dirsearch")
        ELSE IF Fault("dirs") THEN Returned(Here, "fail", "")
        ELSE IF /\ previous_dir("dirsearch.txt") # NoDay
                /\ ScrapeRaises(hist[previous_dir("dirsearch.txt")]["dirsearch.txt"], "#")
             THEN Returned(Here, "fail", "")
        ELSE Select(Incremental("dirs", canon["alive.txt"]))

\* run_param_mining.  The steps, last first: the two merges, the read of uro's
\* file, the launch of uro, the files written from gau's output, the return
\* after gau, the launch of gau, the temporary file of the new targets, the
\* choice of the targets.
run_param_mining ==
    LET Finish(S3, filtered) ==
            Returned(Merged(Merged(S3, "params.txt", "new_params.txt", filtered),
                            "js.txt", "new_js.txt", SelectSeq(filtered, EndsWithJs)),
                     "ok", "")
        Filtered(S3) ==
            Finish(S3, IF S3.h["params_filtered.txt"].exists
                      THEN CleanLines(S3.h["params_filtered.txt"].lines)
                      ELSE <<>>)
        Uro(S2, uro_in, uro_run) ==
            Filtered(WithOutput(run_command(S2, "params", "uro", TRUE,
                                            uro_in, NoSelection, uro_run.rc),
                                "params_filtered.txt", uro_run))
        Raw(S2) == Uro(S2, S2.h["uro_in.txt"].lines,
                       FileRun("uro", S2.h["uro_in.txt"].lines))
        AfterGau(S1, gau_run) ==
            IF gau_run.rc # 0 THEN Returned(S1, "ok", "")
            ELSE Raw([S1 EXCEPT !.h["params_raw.txt"] = write_lines(gau_run.out),
                                !.h["uro_in.txt"] = write_lines(gau_run.out)])
        Gau(S0, target, sel, gau_run) ==
            AfterGau(run_command(S0, "params", "bash", TRUE, target, sel, gau_run.rc),
                     gau_run)
        Scan(S0, target, sel) == Gau(S0, target, sel, StdoutRun("bash", GauOut(target)))
        OnNew(S0, sel) == Scan(S0, S0.h["new_alive.txt"].lines, sel)
        Select(sel) ==
            IF sel.incremental /\ sel.lines = <<>> THEN Returned(Here, "ok", "")
            ELSE IF sel.incremental
                 THEN OnNew([Here EXCEPT !.h["new_alive.txt"] = write_lines(sel.lines)], sel)
                 ELSE Scan(Here, sel.lines, sel)
    IN  IF ~canon["alive.txt"].exists THEN Returned(Here, "exit", "alive.txt")
        ELSE IF ~Present("gau") THEN Returned(Here, "ok", "gau")
        ELSE IF ~Present("uro") THEN Returned(Here, "ok", "uro")
        ELSE IF Fault("params") THEN Returned(Here, "fail", "")
        ELSE Select(Incremental("params", canon["alive.txt"]))

\* The loop of run_secretfinder: one launch per URL, not rate-limited; the
\* non-blank output lines of the launches that return 0 are the findings.
RECURSIVE ScanJs(_, _, _, _)
ScanJs(S, urls, sel, findings) ==
    IF urls = <<>> THEN [S |-> S, findings |-> findings]
    ELSE LET NotBlank(x) == Strip(x) # <<>>
             Found(run) == IF run.rc = 0 THEN SelectSeq(run.out, NotBlank) ELSE <<>>
             Launch(run) ==
                 ScanJs(run_command(S, "secrets", "python3", FALSE, <<Head(urls)>>, sel,
                                    run.rc),
                        Tail(urls), sel, findings \o Found(run))
         IN  Launch(StdoutRun("python3", SecretOut))

\* run_secretfinder
run_secretfinder ==
    LET Finish(scan) ==
            Returned(Merged(scan.S, "secrets.txt", "new_secrets.txt", scan.findings),
                     "ok", "")
        Select(sel) ==
            IF sel.incremental /\ sel.lines = <<>> THEN Returned(Here, "ok", "")
            ELSE Finish(ScanJs(Here, sel.lines, sel, <<>>))
    IN  IF ~canon["js.txt"].exists THEN Returned(Here, "exit", "js.txt")
        ELSE IF ~Present("python3") THEN Returned(Here, "ok", "python3")
        ELSE IF ~Present("secretfinder") THEN Returned(Here, "ok", "secretfinder")
        ELSE IF Fault("secrets") THEN Returned(Here, "fail", "")
        ELSE Select(Incremental("secrets", canon["js.txt"]))

\* run_nuclei.  The steps, last first: the merge of nuclei's file, the launch,
\* the temporary file of the new targets, the choice of the targets.
run_nuclei ==
    LET Finish(S1) ==
            Returned(Merged(S1, "nuclei.txt", "new_nuclei.txt",
                            read_lines(S1.h["nuclei.txt"])),
                     "ok", "")
        Launch(S0, target, sel, run) ==
            Finish(WithOutput(run_command(S0, "nuclei", "nuclei", TRUE,
                                         target, sel, run.rc),
                             "nuclei.txt", run))
        Scan(S0, target, sel) ==
            Launch(S0, target, sel, FileRun("nuclei", NucleiOut(target)))
        OnNew(S0, sel) == Scan(S0, S0.h["new_params.txt"].lines, sel)
        Select(sel) ==
            IF sel.incremental /\ sel.lines = <<>> THEN Returned(Here, "ok", "")
            ELSE IF sel.incremental
                 THEN OnNew([Here EXCEPT !.h["new_params.txt"] = write_lines(sel.lines)], sel)
                 ELSE Scan(Here, sel.lines, sel)
    IN  IF ~canon["params.txt"].exists THEN Returned(Here, "exit", "params.txt")
        ELSE IF ~Present("nuclei") THEN Returned(Here, "ok", "nuclei")
        ELSE IF Fault("nuclei") THEN Returned(Here, "fail", "")
        ELSE IF /\ previous_dir("nuclei.txt") # NoDay
                /\ ScrapeRaises(hist[previous_dir("nuclei.txt")]["nuclei.txt"], "[")
             THEN Returned(Here, "fail", "")
        ELSE Select(Incremental("nuclei", canon["params.txt"]))

\* run_screenshots_placeholder.  The fault: writing the note raises.
run_screenshots_placeholder ==
    IF Fault("screens") THEN Returned(Here, "fail", "")
    ELSE Returned([Here EXCEPT !.h["screenshots_note.txt"] =
                       write_lines(<< <<"eyewitness stage not implemented yet">> >>)],
                  "ok", "")

\* The place of a stage in the order run_cli runs the stages in.
Position(st) == CHOOSE i \in 1..Len(StageOrder) : StageOrder[i] = st

\* Mutant: the stage of the plan that comes last in the order is run first.
StepFromLast(plan, i) ==
    IF \E j \in i..Len(StageOrder) : StageOrder[j] \in plan
    THEN StageOrder[CHOOSE j \in i..Len(StageOrder) :
             StageOrder[j] \in plan /\ \A k \in (j + 1)..Len(StageOrder) : StageOrder[k] \notin plan]
    ELSE "meta"

\* The first stage of the plan at or after place i, "meta" when none is left.
StepFrom(plan, i) ==
    IF \E j \in i..Len(StageOrder) : StageOrder[j] \in plan
    THEN StageOrder[CHOOSE j \in i..Len(StageOrder) :
             StageOrder[j] \in plan /\ \A k \in i..(j - 1) : StageOrder[k] \notin plan]
    ELSE "meta"

\* The targets given to the tools that started (no FileNotFoundError), with
\* the stage and the day.
Submitted(launches) ==
    UNION {{[stage |-> launches[i].stage, tool |-> launches[i].tool,
             target |-> x, day |-> today] : x \in launches[i].targets} :
           i \in {j \in 1..Len(launches) : launches[j].rc # 127}}

\* _run_wrapped around a stage that ends as E: step_ok, or step_fail for an
\* Exception; a SystemExit is raised again and ends run_cli.
RunWrapped(step_name, E) ==
    /\ pc = step_name
    /\ E.exact
    /\ canon' = E.canon
    /\ hist' = [hist EXCEPT ![today] = E.h]
    /\ limiter' = E.lim
    /\ now' = E.t
    /\ launched' = launched \o E.launches
    /\ outcome' = [outcome EXCEPT ![step_name] = E.result]
    /\ missing' = [missing EXCEPT ![step_name] = E.miss]
    /\ merges' = merges \cup E.merges
    /\ prior' = prior \cup Submitted(E.launches)
    /\ pc' = IF E.result = "exit" THEN "aborted"
             ELSE StepFrom(steps, Position(step_name) + 1)
    /\ UNCHANGED <<today, new_count, lastBatch, prevCanon, merged, sameAsPrev,
                   acq, admitted, args, steps, wild, run_meta, anomaly, runs, procVars>>

\* The rate limiting of a run: the defaults of the limiter, unless the
\* configuration has a rate_limiting section.
DefaultRps == 10

DefaultBurst == 50

RunConfigs == {[global_rps |-> DefaultRps, burst_capacity |-> DefaultBurst]}

\* configure_rate_limiter on the limiter of a new process
configure_rate_limiter(config) ==
    [set_global_rate(NewLimiter(DefaultRps, DefaultBurst, 0), config.global_rps)
        EXCEPT !.burst_capacity = config.burst_capacity]

\* The command lines of the runs.
RunPlans ==
    {[full |-> TRUE, stages |-> {}],
     [full |-> FALSE, stages |-> {}],
     [full |-> FALSE, stages |-> {"ports_scan", "screens"}]}

\* run_cli up to its first stage: a new process, its limiter, its plan.
StartRun(a, config, anom) ==
    /\ pc \in {"idle", "done", "aborted"}
    /\ runs' = runs + 1
    /\ anomaly' = anom
    /\ args' = a
    /\ steps' = resolve_steps(a)
    /\ pc' = StepFrom(resolve_steps(a), 1)
    /\ limiter' = configure_rate_limiter(config)
    /\ now' = 0
    /\ outcome' = [st \in Stages |-> "none"]
    /\ missing' = [st \in Stages |-> ""]
    /\ launched' = <<>>
    /\ merges' = {}
    /\ UNCHANGED <<fileVars, acq, admitted, wild, run_meta, prior, procVars>>

\* run_cli after its last stage: run_meta.json, then run_complete.
WriteMeta ==
    /\ pc = "meta"
    /\ run_meta' = [run_meta EXCEPT ![today] = [exists |-> TRUE, steps |-> steps]]
    /\ pc' = "done"
    /\ UNCHANGED <<fileVars, limVars, args, steps, wild, outcome, missing, launched,
                   anomaly, runs, merges, prior, procVars>>

\* The date changes after the process of a run has ended.
NextDay ==
    /\ pc \in {"done", "aborted"}
    /\ today < MaxDay
    /\ today' = today + 1
    /\ pc' = "idle"
    /\ outcome' = [st \in {} |-> ""]
    /\ missing' = [st \in {} |-> ""]
    /\ launched' = <<>>
    /\ anomaly' = NoAnomaly
    /\ merges' = {}
    /\ UNCHANGED <<canon, hist, new_count, lastBatch, prevCanon, merged, sameAsPrev,
                   limVars, args, steps, wild, run_meta, runs, prior, procVars>>

Subs == RunWrapped("subs", run_subdomain_enum)

Alive == RunWrapped("alive", run_alive_check)

PortsScan == RunWrapped("ports_scan", run_ports_scan)

Dirs == RunWrapped("dirs", run_dirsearch)

Params == RunWrapped("params", run_param_mining)

Secrets == RunWrapped("secrets", run_secretfinder)

Nuclei == RunWrapped("nuclei", run_nuclei)

Screens == RunWrapped("screens", run_screenshots_placeholder)

\* A new project, with or without its wildcard scope list.
InitRun ==
    /\ InitFilesIdle
    /\ InitLimiterWith(NoLimits)
    /\ args = [full |-> FALSE, stages |-> {}]
    /\ steps = {}
    /\ pc = "idle"
    /\ wild \in BOOLEAN
    /\ run_meta = [d \in Days |-> [exists |-> FALSE, steps |-> {}]]
    /\ outcome = [st \in {} |-> ""]
    /\ missing = [st \in {} |-> ""]
    /\ launched = <<>>
    /\ anomaly = NoAnomaly
    /\ runs = 0
    /\ merges = {}
    /\ prior = {}
    /\ InitProcsIdle

NextRun ==
    \/ \E a \in RunPlans, config \in RunConfigs :
          \E anom \in Anomalies(resolve_steps(a)) :
              runs < MaxRuns /\ StartRun(a, config, anom)
    \/ Subs
    \/ Alive
    \/ PortsScan
    \/ Dirs
    \/ Params
    \/ Secrets
    \/ Nuclei
    \/ Screens
    \/ WriteMeta
    \/ NextDay

SpecRun == InitRun /\ [][NextRun]_vars

(* Runs of the discovery stages over several days. *)
IncrPlans == {[full |-> FALSE, stages |-> {"subs", "alive", "ports_scan"}]}

NextIncr ==
    \/ \E a \in IncrPlans, config \in RunConfigs :
          \E anom \in Anomalies(resolve_steps(a)) :
              runs < MaxIncrRuns /\ StartRun(a, config, anom)
    \/ Subs
    \/ Alive
    \/ PortsScan
    \/ WriteMeta
    \/ NextDay

SpecIncr == InitRun /\ [][NextIncr]_vars


\* The run has gone through its plan: every selected stage has an outcome and
\* the manifest of the day is written.
RunCompleted ==
    /\ pc = "done"
    /\ \A st \in steps : outcome[st] # "none"
    /\ run_meta[today].exists

Raised(st) == outcome[st] \in {"fail", "exit"}

\* C4: a stage that raises an exception never aborts the run: the stages
\* after it in the plan still run and the run completes with its manifest.
C4_FailureNeverAborts ==
    \A K \in DOMAIN outcome :
        Raised(K) => /\ pc # "aborted"
                     /\ pc = "done" => RunCompleted

\* What does hold: a stage that raises an Exception other than SystemExit is
\* logged as failed and the run goes on to the next stage of the plan.
ExceptionIsolated ==
    \A K \in DOMAIN outcome :
        outcome[K] = "fail" /\ (\A st \in Stages : outcome[st] # "exit")
            => /\ pc # "aborted"
               /\ pc = "done" => RunCompleted

\* C5: a stage that finds its upstream canonical file missing is skipped, the
\* condition is not raised out of the stage and the run is not aborted.
C5_MissingUpstreamNotRaised ==
    \A st \in DOMAIN missing :
        missing[st] \in CanonFiles => outcome[st] = "ok" /\ pc # "aborted"

\* The external tools of the stages.
ExternalTools == {"subfinder", "httpx", "naabu", "nmap", "dirsearch", "gau", "uro",
                  "python3", "secretfinder", "nuclei"}

LaunchesOf(st) == {i \in 1..Len(launched) : launched[i].stage = st}

\* C10: a stage that finds a tool it requires absent launches no external
\* process, does not raise, and the stages after it still run.
C10_AbsentToolNoLaunch ==
    \A st \in DOMAIN missing :
        missing[st] \in ExternalTools =>
            /\ LaunchesOf(st) = {}
            /\ outcome[st] = "ok"
            /\ pc # "aborted"
            /\ pc = "done" => RunCompleted

\* The launches that are given a target list computed from a snapshot.
ListLaunches ==
    {i \in 1..Len(launched) :
        launched[i].tool \in {"httpx", "naabu", "dirsearch", "bash", "nuclei"}}

\* The previous snapshot of a launch: the latest directory with the marker,
\* today's excluded.
PreviousSnapshot(r) ==
    IF r.markers \ {today} # {} THEN Max(r.markers \ {today}) ELSE NoDay

\* C \ P for the previous snapshot of the launch, C when there is none.
CandidatesMinusPrevious(r) ==
    IF PreviousSnapshot(r) = NoDay THEN r.candidates
    ELSE {c \in r.candidates :
             KeyBy(r.stage, c) \notin
                 SeenBy(r.stage, hist[PreviousSnapshot(r)][MarkerOf[r.stage]])}

\* C6: the targets a stage passes to its tool are the current candidates
\* less the keys of the previous snapshot, all the candidates when there is
\* no previous snapshot.
C6_TargetsAreCandidatesMinusPrevious ==
    \A i \in ListLaunches : launched[i].targets = CandidatesMinusPrevious(launched[i])

\* What does hold: the targets are C \ P whenever the stage itself selects a
\* previous snapshot, which it does only when at least two directories hold
\* the marker.
TargetsWhenIncremental ==
    \A i \in ListLaunches :
        launched[i].incremental => launched[i].targets = CandidatesMinusPrevious(launched[i])

\* The stages of the plan that have run in this run.
HasRun(st) == st \in DOMAIN outcome /\ outcome[st] # "none"

\* C11: the selected stages run one at a time in the order subs, alive,
\* ports_scan, dirs, params, secrets, nuclei, screens: a stage has run only
\* when every selected stage before it has, the stage about to run has not
\* run yet, and the launches of the run follow the same order.
C11_FixedOrder ==
    /\ \A s, t \in steps \cap DOMAIN outcome :
          (Position(s) < Position(t) /\ HasRun(t)) => HasRun(s)
    /\ pc \in Stages =>
          /\ ~HasRun(pc)
          /\ \A s \in steps : Position(s) < Position(pc) => HasRun(s)
    /\ \A i, j \in 1..Len(launched) :
          i < j => Position(launched[i].stage) <= Position(launched[j].stage)

\* C11 witness: a --full run has gone through its eight stages, with the
\* launches of subs, alive, params and secrets made in that order.
C11_Witness ==
    /\ pc = "done"
    /\ args.full
    /\ \A st \in Stages : outcome[st] = "ok"
    /\ \E i, j, k, l \in 1..Len(launched) :
          /\ i < j /\ j < k /\ k < l
          /\ launched[i].stage = "subs"
          /\ launched[j].stage = "alive"
          /\ launched[k].stage = "params"
          /\ launched[l].stage = "secrets"

\* C12: once the selected stages have run, the manifest of the snapshot holds
\* the selected stages and, for each of them, its outcome and elapsed time.
C12_ManifestRecordsOutcomes ==
    pc = "done" =>
        /\ run_meta[today].exists
        /\ run_meta[today].steps = steps
        /\ {"outcomes", "elapsed"} \subseteq DOMAIN run_meta[today]

\* What does hold: the manifest is written after the last stage and holds
\* the selected stages.
ManifestRecordsSteps ==
    pc = "done" => run_meta[today].exists /\ run_meta[today].steps = steps

\* The target was given to the tool of the stage on an earlier day.
SubmittedBefore(st, tool, x) ==
    \E p \in prior : p.stage = st /\ p.tool = tool /\ p.target = x /\ p.day < today

\* C13: a target that a stage gave to its tool in a run of an earlier day is
\* not given to that tool again.
C13_NoResubmission ==
    \A i \in ListLaunches :
        \A x \in launched[i].targets :
            ~SubmittedBefore(launched[i].stage, launched[i].tool, x)

\* C14: the canonical file exists once merge_into_canonical has returned,
\* also when the candidate batch had no new line.
C14_CanonicalExistsAfterMerge == merged => canon["subs.txt"].exists

\* What does hold: the canonical file exists after a merge that found a new
\* line, and a merge never removes it.
CanonicalExistsAfterNewLines ==
    merged => /\ new_count > 0 => canon["subs.txt"].exists
              /\ prevCanon.exists => canon["subs.txt"].exists

\* C15: the runs of one day append to the delta file of the day: a line that
\* an earlier merge of the day wrote to new_subs.txt is still in it after a
\* later merge of the same day.
C15_DeltaKeptWithinDay ==
    [][today' = today =>
          Range(hist[today]["new_subs.txt"].lines)
              \subseteq Range(hist'[today]["new_subs.txt"].lines)]_vars

(***************************************************************************)
(* The subs module (modules/subs.py): a process of its own that enumerates *)
(* the subdomains of the hosts of subs.txt, probes them, and appends the   *)
(* responsive ones to alive.txt with the external tool anew.               *)
(***************************************************************************)

\* anew: the lines that the file does not hold yet, each once.
RECURSIVE AnewFrom(_, _)
AnewFrom(held, lines) ==
    IF lines = <<>> THEN <<>>
    ELSE IF Head(lines) \in held THEN AnewFrom(held, Tail(lines))
    ELSE <<Head(lines)>> \o AnewFrom(held \cup {Head(lines)}, Tail(lines))

\* cat <lines> | anew <file>: the file is created, the lines it does not hold
\* are appended.
anew(f, lines) == File(f.lines \o AnewFrom(Range(f.lines), lines))

\* The domain of a target: the host of a URL, the target itself otherwise.
DomainOf(target) ==
    IF target[1] \in Schemes \cup {"http"} THEN HostOf(target) ELSE Strip(target)

\* The domains of the input file, as a set: list(set(domains)).
DomainSet(input) ==
    {DomainOf(t) : t \in Range(CleanLines(read_lines(input)))} \ {<<>>}

\* The orders in which list(set(...)) may give the elements of a set.
Orders(S) == {q \in SeqsUpTo(S, Cardinality(S)) : Len(q) = Cardinality(S) /\ Range(q) = S}

\* What can go wrong in a run of the subs module.
SubsAnomalies ==
    {NoAnomaly}
    \cup {[at |-> t, kind |-> "absent"] : t \in {"subfinder", "httpx", "anew"}}
    \cup {[at |-> l, kind |-> k] : l \in {"subfinder", "httpx"},
                                   k \in {"notfound", "failed", "timeout", "empty"}}
    \cup {[at |-> "anew", kind |-> "failed"]}

\* run_subs_discovery, given the order of the domain list.  The steps, last
\* first: anew on alive.txt, the read of httpx's file, the launch of httpx,
\* anew on the day's new_subs.txt, the read of subfinder's file, the launch
\* of subfinder.
run_subs_discovery(domains) ==
    LET Append2(S5, rc) ==
            IF rc # 0 THEN Returned(S5, "ok", "")
            ELSE Returned([S5 EXCEPT !.canon["alive.txt"] =
                               anew(@, S5.h["temp_alive_for_anew.txt"].lines)],
                          "ok", "")
        Alive2(S4, alive_subdomains, run) ==
            Append2(run_command(S4, "subs_discovery", "bash", FALSE, alive_subdomains,
                                NoSelection, run.rc),
                    run.rc)
        Probed(S3, alive_subdomains) ==
            IF alive_subdomains = <<>> THEN Returned(S3, "ok", "")
            ELSE Alive2([S3 EXCEPT !.h["temp_alive_for_anew.txt"] =
                             write_lines(alive_subdomains)],
                        alive_subdomains, StdoutRun("anew", <<>>))
        AfterHttpx(S3, run) ==
            IF run.rc # 0 THEN Returned(S3, "ok", "")
            ELSE Probed(S3, read_lines(S3.h["new_alive.txt"]))
        Httpx(S2, all_subdomains, run) ==
            AfterHttpx(WithOutput(run_command(S2, "subs_discovery", "httpx", TRUE,
                                              all_subdomains, NoSelection, run.rc),
                                  "new_alive.txt", run),
                       run)
        Append1(S2, all_subdomains, rc) ==
            Httpx(IF rc # 0 THEN S2
                  ELSE [S2 EXCEPT !.h["new_subs.txt"] =
                            anew(@, S2.h["new_subdomains.txt"].lines)],
                  all_subdomains,
                  FileRun("httpx", HttpxOut(S2.h["new_subdomains.txt"].lines)))
        Found(S1, all_subdomains, run) ==
            IF all_subdomains = <<>> THEN Returned(S1, "ok", "")
            ELSE Append1(run_command(S1, "subs_discovery", "bash", FALSE, all_subdomains,
                                     NoSelection, run.rc),
                         all_subdomains, run.rc)
        AfterSubfinder(S1, run) ==
            IF run.rc # 0 THEN Returned(S1, "ok", "")
            ELSE Found(S1, CleanLines(read_lines(S1.h["new_subdomains.txt"])),
                       StdoutRun("anew", <<>>))
        Enumerate(S0, run) ==
            AfterSubfinder(WithOutput(run_command(S0, "subs_discovery", "subfinder", TRUE,
                                                  domains, NoSelection, run.rc),
                                      "new_subdomains.txt", run),
                           run)
    IN  IF ~canon["subs.txt"].exists THEN Returned(Here, "exit", "subs.txt")
        ELSE IF ~Present("subfinder") THEN Returned(Here, "ok", "subfinder")
        ELSE IF ~Present("httpx") THEN Returned(Here, "ok", "httpx")
        ELSE IF ~Present("anew") THEN Returned(Here, "ok", "anew")
        ELSE Enumerate([Here EXCEPT !.h["temp_domains.txt"] = write_lines(domains)],
                       FileRun("subfinder",
                               IF domains = <<>> THEN <<>> ELSE SubfinderOut))

\* subs.run_cli up to run_subs_discovery: a new process, with the limiter of
\* its first get_global_rate_limiter call.
StartSubsModule(anom) ==
    /\ pc \in {"idle", "done", "aborted"}
    /\ runs' = runs + 1
    /\ anomaly' = anom
    /\ pc' = "subs_discovery"
    /\ limiter' = NewLimiter(DefaultRps, DefaultBurst, 0)
    /\ now' = 0
    /\ outcome' = [st \in Stages |-> "none"]
    /\ missing' = [st \in Stages |-> ""]
    /\ launched' = <<>>
    /\ merges' = {}
    /\ UNCHANGED <<fileVars, acq, admitted, args, steps, wild, run_meta, prior, procVars>>

\* subs.run_cli: run_subs_discovery, not wrapped; a SystemExit ends the process.
SubsDiscovery ==
    /\ pc = "subs_discovery"
    /\ \E domains \in Orders(DomainSet(canon["subs.txt"])) :
          \E E \in {run_subs_discovery(domains)} :
              /\ E.exact
              /\ canon' = E.canon
              /\ hist' = [hist EXCEPT ![today] = E.h]
              /\ limiter' = E.lim
              /\ now' = E.t
              /\ launched' = launched \o E.launches
              /\ merges' = merges \cup E.merges
              /\ prior' = prior \cup Submitted(E.launches)
              /\ pc' = IF E.result = "exit" THEN "aborted" ELSE "done"
    /\ UNCHANGED <<today, new_count, lastBatch, prevCanon, merged, sameAsPrev,
                   acq, admitted, args, steps, wild, run_meta, outcome, missing,
                   anomaly, runs, procVars>>

(* Runs of the recon module and of the subs module on one project. *)
SubsPlans == {[full |-> FALSE, stages |-> {}]}

NextSubs ==
    \/ \E a \in SubsPlans, config \in RunConfigs :
          \E anom \in Anomalies(resolve_steps(a)) :
              runs < MaxRuns /\ StartRun(a, config, anom)
    \/ Subs
    \/ Alive
    \/ WriteMeta
    \/ \E anom \in SubsAnomalies : runs < MaxRuns /\ StartSubsModule(anom)
    \/ SubsDiscovery
    \/ NextDay

SpecSubs == InitRun /\ [][NextSubs]_vars

\* C16: the canonical files change only through merge_into_canonical: a step
\* that changes one is a step in which that file was passed to it.
C16_CanonicalOnlyByMerge ==
    [][\A f \in CanonFiles : canon'[f] # canon[f] => f \in merges' \ merges]_vars

(* The limiter when a rate of 0 is configured.  A call that raises before  *)
(* last_update leaves the bucket further below zero each time: the calls   *)
(* are followed down to a debt of MaxDebt tokens.                          *)
ZeroToolRates == {0, 1}

ZeroGlobalRates == {0, 2}

NextZero ==
    \/ \E tool \in {"httpx", NoTool}, cost \in {1, 3} :
          /\ Acquire(tool, cost)
          /\ limiter'.tokens >= -MaxDebt
          /\ UNCHANGED <<fileVars, planVars, runVars, procVars>>
    \/ \E r \in ZeroToolRates :
          SetToolLimit("httpx", r) /\ UNCHANGED <<fileVars, planVars, runVars, procVars>>
    \/ \E r \in ZeroGlobalRates :
          SetGlobalRate(r) /\ UNCHANGED <<fileVars, planVars, runVars, procVars>>
    \/ Tick /\ UNCHANGED <<fileVars, planVars, runVars, procVars>>

SpecZero == InitLimiter /\ [][NextZero]_vars

\* C17: an effective rate of 0 has a defined outcome: set_tool_limit and
\* set_global_rate do not leave a rate of 0 behind, or acquire does not end
\* in an arithmetic error.
C17_ZeroRateDefined ==
    \/ /\ limiter.rps # 0
       /\ \A t \in DOMAIN limiter.tool_limits : limiter.tool_limits[t] # 0
    \/ acq.called => ~acq.raised

\* What does hold: acquire raises only when the effective rate of the call
\* is 0 and the bucket holds less than the cost.
RaisesOnlyAtZeroRate ==
    (acq.called /\ acq.raised) =>
        /\ acq.tokens < acq.cost
        /\ acq.limit = 0
        /\ acq.tool = NoTool => acq.rps = 0

(* Launches that do not end well, in runs of the recon module. *)

\* The place of a launch among the launches of its stage.
Ordinal(i) == Cardinality({j \in 1..i : launched[j].stage = launched[i].stage})

\* The launch that the anomaly of the run names.
LaunchName(i) ==
    IF launched[i].tool = "naabu" /\ Ordinal(i) = 2 THEN "naabu -nmap-cli"
    ELSE launched[i].tool

C19_NonZeroExitFails ==
    \A i \in 1..Len(launched) :
        launched[i].rc # 0 => outcome[launched[i].stage] = "fail"

\* The canonical files of each stage.
CanonOf ==
    [st \in Stages |->
        CASE st = "subs" -> {"subs.txt"}
          [] st = "alive" -> {"alive.txt"}
          [] st = "ports_scan" -> {"ports.txt"}
          [] st = "dirs" -> {"dirs.txt"}
          [] st = "params" -> {"params.txt", "js.txt"}
          [] st = "secrets" -> {"secrets.txt"}
          [] st = "nuclei" -> {"nuclei.txt"}
          [] OTHER -> {}]

\* C20: a stage whose tool timed out still merges what the tool had written
\* into its canonical file.
C20_TimeoutOutputMerged ==
    \A i \in 1..Len(launched) :
        launched[i].rc = 124 => CanonOf[launched[i].stage] \subseteq merges

\* What does hold: after a timeout the stages subs, alive, dirs and nuclei
\* go on to their merge, as does ports_scan when the timeout is that of its
\* second launch.
TimeoutMergedWhereRead ==
    \A i \in 1..Len(launched) :
        (/\ launched[i].rc = 124
         /\ \/ launched[i].stage \in {"subs", "alive", "dirs", "nuclei"}
            \/ LaunchName(i) = "naabu -nmap-cli")
            => CanonOf[launched[i].stage] \subseteq merges

\* ---------------------------------------------------------------------
\* The choice of the previous snapshot
\* ---------------------------------------------------------------------

\* C21: a stage compares with the latest history directory that holds its
\* marker, today's excluded, whenever there is one: a launch is made in the
\* incremental branch exactly when some earlier directory holds the marker,
\* a single earlier snapshot included.
C21_PreviousSnapshotChosen ==
    \A i \in ListLaunches :
        launched[i].incremental = (PreviousSnapshot(launched[i]) # NoDay)

\* ---------------------------------------------------------------------
\* The rate of the refill
\* ---------------------------------------------------------------------

ClampTo(x, cap) == IF x > cap THEN cap ELSE x

\* C22: acquire(tool) refills the bucket by the elapsed time times the
\* effective rate of the tool (its limit when one is set, the global rate
\* otherwise), clamped to burst_capacity: the rate of the refill is the rate
\* of the wait.
C22_RefillAtEffectiveRate ==
    (acq.called /\ acq.enabled) =>
        acq.tokens = ClampTo(acq.before
                               + acq.elapsed * (IF acq.limit # 0 THEN acq.limit
                                                ELSE acq.rps),
                             acq.burst)

\* What does hold: the refill is made at the global rate, whatever the tool.
RefillAtGlobalRate ==
    (acq.called /\ acq.enabled) =>
        acq.tokens = ClampTo(acq.before + acq.elapsed * acq.rps, acq.burst)

----------------------------------------------------------------------------
(* A burst of unit calls on a full bucket.  One tick is the time in which   *)
(* the bucket gains one token: BurstRps is 1 token per tick, as 10 per      *)
(* second is with ticks of a tenth of a second.                             *)

MaxBurstCalls == 5

BurstRps == 1

BurstSizes == {1, 2, 3}

InitBurst ==
    /\ InitFilesIdle
    /\ InitPlanIdle
    /\ now = 0
    /\ \E b \in BurstSizes : limiter = NewLimiter(BurstRps, b, 0)
    /\ acq = NoAcquire
    /\ admitted = <<>>

\* One unit call of acquire, with its call time and its result recorded.
AcquireUnit(tool_name) ==
    /\ Len(admitted) < MaxBurstCalls
    /\ AcquireStep(tool_name, 1)
    /\ admitted' = Append(admitted,
                          [at |-> now + acq'.wait, units |-> 1,
                           rate |-> EffectiveRps(limiter, tool_name),
                           called_at |-> now, wait |-> acq'.wait])

NextBurst ==
    \/ \E tool \in {"httpx", NoTool} :
          AcquireUnit(tool) /\ UNCHANGED <<fileVars, planVars, runVars, procVars>>
    \/ Tick /\ UNCHANGED <<fileVars, planVars, runVars, procVars>>

SpecBurst == InitBurst /\ [][NextBurst]_vars

\* All the calls so far were made at the same time.
RapidSuccession ==
    \A k \in 1..Len(admitted) : admitted[k].called_at = admitted[1].called_at

\* C23: of the unit calls made on a full bucket of B tokens with no time
\* elapsing between them, exactly the first B return a wait of 0, and every
\* later call returns a strictly positive wait that is not smaller than the
\* wait of the call before it.
C23_BurstThenGrowingWaits ==
    RapidSuccession =>
        \A k \in 1..Len(admitted) :
            /\ k <= limiter.burst_capacity => admitted[k].wait = 0
            /\ k > limiter.burst_capacity =>
                  /\ admitted[k].wait > 0
                  /\ admitted[k].wait >= admitted[k - 1].wait

\* C23 witness: five calls at one time on a full bucket of 2: the first two
\* return 0, the next three wait 1, 2 and 3 ticks.
C23_Witness ==
    /\ RapidSuccession
    /\ limiter.burst_capacity = 2
    /\ Len(admitted) = 5
    /\ [k \in 1..5 |-> admitted[k].wait] = <<0, 0, 1, 2, 3>>
    /\ limiter.last_update = admitted[1].called_at + 3

----------------------------------------------------------------------------
(* The lock of the limiter.  The threads of Procs call the methods of one   *)
(* GlobalRateLimiter; a method that begins with `with self.lock` waits for  *)
(* the lock ("entering"), runs its body holding it ("locked") and releases  *)
(* it when the body ends.  run_command sleeps after acquire has returned.   *)

\* A call that is not part of configure_rate_limiter.
NoConfig == [given |-> FALSE]

\* The configurations configure_rate_limiter is given: a rate_limiting
\* section with or without a tool limit, with or without
\* disable_rate_limiting.
LockConfigs ==
    {[given |-> TRUE, global_rps |-> 2, burst_capacity |-> 1,
      tool |-> t, tool_rps |-> 1, disable_rate_limiting |-> d] :
        t \in {NoTool, "httpx"}, d \in BOOLEAN}

\* A thread calls acquire, set_tool_limit or set_global_rate.  acquire
\* returns 0.0 at once when the limiter is disabled; the test is made before
\* the lock is asked for.
Call(p, op, tool_name, val) ==
    /\ proc[p].pc = "idle"
    /\ proc' = [proc EXCEPT ![p] =
                   IF op = "acquire" /\ ~limiter.enabled THEN Idle
                   ELSE [pc |-> "entering", op |-> op, tool |-> tool_name,
                         val |-> val, config |-> NoConfig]]
    /\ UNCHANGED <<limVars, lock>>

\* configure_rate_limiter: its first call is set_global_rate.
Configure(p, config) ==
    /\ proc[p].pc = "idle"
    /\ proc' = [proc EXCEPT ![p] =
                   [pc |-> "entering", op |-> "set_global_rate", tool |-> NoTool,
                    val |-> config.global_rps, config |-> config]]
    /\ UNCHANGED <<limVars, lock>>

\* `with self.lock`: the thread gets the lock when nobody holds it.
TakeLock(p) ==
    /\ proc[p].pc = "entering"
    /\ lock = NoHolder
    /\ lock' = p
    /\ proc' = [proc EXCEPT ![p].pc = "locked"]
    /\ UNCHANGED limVars

\* Where configure_rate_limiter goes after its tool limits are set.
AfterLimits(config) ==
    IF config.disable_rate_limiting THEN [pc |-> "disabling", config |-> config]
    ELSE Idle

\* The body of the with block and the release of the lock at its end.  The
\* body of acquire does not test `enabled` again.
Locked(p) ==
    LET c == proc[p]
        r == acquire([limiter EXCEPT !.enabled = TRUE], c.tool, 1, now)
    IN  /\ c.pc = "locked"
        /\ lock = p
        /\ lock' = NoHolder
        /\ IF c.op = "acquire"
           THEN /\ ExactWait([limiter EXCEPT !.enabled = TRUE], c.tool, 1, now)
                /\ r.lim.last_update <= Horizon
                /\ limiter' = [r.lim EXCEPT !.enabled = limiter.enabled]
                /\ proc' = [proc EXCEPT ![p] =
                               IF r.wait > 0
                               THEN [pc |-> "sleeping", until |-> now + r.wait]
                               ELSE Idle]
           ELSE IF c.op = "set_tool_limit"
           THEN /\ limiter' = set_tool_limit(limiter, c.tool, c.val)
                /\ proc' = [proc EXCEPT ![p] =
                               IF c.config.given THEN AfterLimits(c.config) ELSE Idle]
           ELSE /\ limiter' = set_global_rate(limiter, c.val)
                /\ proc' = [proc EXCEPT ![p] =
                               IF c.config.given
                               THEN [pc |-> "assigning", config |-> c.config]
                               ELSE Idle]
        /\ UNCHANGED <<now, acq, admitted>>

\* configure_rate_limiter: `limiter.burst_capacity = burst_capacity`, then the
\* tool limits.
AssignBurst(p) ==
    LET config == proc[p].config
    IN  /\ proc[p].pc = "assigning"
        /\ limiter' = [limiter EXCEPT !.burst_capacity = config.burst_capacity]
        /\ proc' = [proc EXCEPT ![p] =
                       IF config.tool # NoTool
                       THEN [pc |-> "entering", op |-> "set_tool_limit",
                             tool |-> config.tool, val |-> config.tool_rps,
                             config |-> config]
                       ELSE AfterLimits(config)]
        /\ UNCHANGED <<now, acq, admitted, lock>>

\* disable and enable, called by a thread or at the end of
\* configure_rate_limiter.
SetEnabled(p, flag) ==
    /\ \/ proc[p].pc = "idle"
       \/ proc[p].pc = "disabling" /\ ~flag
    /\ IF flag THEN Enable ELSE Disable
    /\ proc' = [proc EXCEPT ![p] = Idle]
    /\ UNCHANGED lock

\* time.sleep(wait_time) returns.
Wake(p) ==
    /\ proc[p].pc = "sleeping"
    /\ now' = IF now < proc[p].until THEN proc[p].until ELSE now
    /\ proc' = [proc EXCEPT ![p] = Idle]
    /\ UNCHANGED <<limiter, acq, admitted, lock>>

NextLock ==
    \E p \in Procs :
        \/ \E tool \in {"httpx", NoTool} :
              Call(p, "acquire", tool, 0) /\ UNCHANGED <<fileVars, planVars, runVars>>
        \/ \E r \in {1, 2} :
              Call(p, "set_tool_limit", "httpx", r) /\ UNCHANGED <<fileVars, planVars, runVars>>
        \/ \E r \in {1, 2} :
              Call(p, "set_global_rate", NoTool, r) /\ UNCHANGED <<fileVars, planVars, runVars>>
        \/ \E config \in LockConfigs :
              Configure(p, config) /\ UNCHANGED <<fileVars, planVars, runVars>>
        \/ TakeLock(p) /\ UNCHANGED <<fileVars, planVars, runVars>>
        \/ Locked(p) /\ UNCHANGED <<fileVars, planVars, runVars>>
        \/ AssignBurst(p) /\ UNCHANGED <<fileVars, planVars, runVars>>
        \/ \E flag \in BOOLEAN :
              SetEnabled(p, flag) /\ UNCHANGED <<fileVars, planVars, runVars>>
        \/ Wake(p) /\ UNCHANGED <<fileVars, planVars, runVars>>

SpecLock == InitBurst /\ [][NextLock]_vars

\* The thread that holds the lock ends the body of its with block in this step.
BodyOfHolder ==
    /\ lock # NoHolder
    /\ proc[lock].pc = "locked"
    /\ proc'[lock].pc # "locked"

\* C24: every change of the limiter's state (tokens, last_update, rps,
\* burst_capacity, tool_limits, enabled) is made by the thread that holds the
\* lock, and no thread sleeps holding the lock.
C24_MutationsUnderLock ==
    [][/\ limiter' # limiter => BodyOfHolder
       /\ \A p \in Procs : proc'[p].pc = "sleeping" => lock' # p]_vars

\* What does hold: tokens, last_update, rps and tool_limits change only in the
\* body of the holder of the lock, and no thread sleeps holding the lock.
GuardedFieldsUnderLock ==
    [][/\ (\/ limiter'.tokens # limiter.tokens
           \/ limiter'.last_update # limiter.last_update
           \/ limiter'.rps # limiter.rps
           \/ limiter'.tool_limits # limiter.tool_limits) => BodyOfHolder
       /\ \A p \in Procs : proc'[p].pc = "sleeping" => lock' # p]_vars

----------------------------------------------------------------------------
(* The frame of merge_into_canonical (checked under SpecMerge).  A file is  *)
(* its sequence of lines, each one terminated.                              *)

\* C25: merge_into_canonical only appends: the lines the canonical file held
\* are a prefix of the lines it holds afterwards, the lines added are
\* exactly the lines of the delta, in order, and with an empty delta the
\* canonical file is left as it was, absent if it was absent.
C25_MergeOnlyAppends ==
    merged =>
        /\ canon["subs.txt"].lines =
               prevCanon.lines \o hist[today]["new_subs.txt"].lines
        /\ new_count = Len(hist[today]["new_subs.txt"].lines)
        /\ new_count = 0 => canon["subs.txt"] = prevCanon

\* C25 witness: a merge has appended two lines to a canonical file that held
\* a line a user had put there, untrimmed, and has kept that line as it was.
C25_Witness ==
    /\ merged
    /\ prevCanon = File(<<<<"b", " ">>>>)
    /\ new_count = 2
    /\ Len(canon["subs.txt"].lines) = 3
    /\ canon["subs.txt"].lines[1] = <<"b", " ">>

\* A merge with an empty delta has left an absent canonical file absent.
EmptyDeltaLeavesAbsent ==
    /\ merged
    /\ new_count = 0
    /\ ~prevCanon.exists
    /\ ~canon["subs.txt"].exists

----------------------------------------------------------------------------
(* An incremental stage with nothing new (checked under SpecIncr). *)

\* The canonical file a stage takes its candidates from.
StageInput ==
    [st \in DOMAIN MarkerOf |->
        CASE st \in {"alive", "ports_scan"} -> "subs.txt"
          [] st \in {"dirs", "params"} -> "alive.txt"
          [] st = "secrets" -> "js.txt"
          [] OTHER -> "params.txt"]

\* The stage is about to run in its incremental branch and every candidate
\* is one the previous snapshot holds (or, for the stages that compare
\* hosts, has no host): the target list it computes is empty.
NothingNew(st) ==
    LET dirs == MarkerDirs(MarkerOf[st])
        cands == read_lines(canon[StageInput[st]])
    IN  /\ canon[StageInput[st]].exists
        /\ Cardinality(dirs) > 1
        /\ dirs \ {today} # {}
        /\ \A i \in 1..Len(cands) :
              \/ KeyBy(st, cands[i]) \in
                     SeenBy(st, hist[Max(dirs \ {today})][MarkerOf[st]])
              \/ st \in {"dirs", "params", "nuclei"} /\ KeyBy(st, cands[i]) = <<>>

\* C26: an incremental stage whose target list is empty ends without
\* launching an external process and without changing a canonical file.
C26_NothingNewNoEffect ==
    [][\A st \in DOMAIN MarkerOf :
          (pc = st /\ NothingNew(st)) => (launched' = launched /\ canon' = canon)]_vars

\* C26 witness: a stage with all its tools present and no fault has found
\* nothing new, and has returned without a launch.
C26_Witness ==
    \E st \in DOMAIN MarkerOf :
        /\ st \in DOMAIN outcome
        /\ outcome[st] = "ok"
        /\ missing[st] = ""
        /\ anomaly.kind \notin {"fault", "absent"}
        /\ NothingNew(st)
        /\ canon[StageInput[st]].lines # <<>>
        /\ LaunchesOf(st) = {}

----------------------------------------------------------------------------
(* The launches and the limiter (checked under SpecRun). *)

\* C27: while the limiter is enabled, every launch of an external tool by a
\* stage is made by a run_command that has called acquire and slept the
\* wait it returned.
C27_EveryLaunchAcquires ==
    limiter.enabled => \A i \in 1..Len(launched) : launched[i].limited

\* What does hold: the launches of subfinder, httpx, dirsearch, gau (through
\* bash), uro and nuclei call acquire first.
LaunchesButNaabuAndSecretFinderAcquire ==
    limiter.enabled =>
        \A i \in 1..Len(launched) :
            launched[i].tool \notin {"naabu", "python3"} => launched[i].limited

----------------------------------------------------------------------------
(* Two processes in merge_into_canonical on the same project and the same   *)
(* artifact (subs.txt, new_subs.txt), each making one call.  The read of    *)
(* the canonical file, the write of the delta file and the append are       *)
(* separate file operations; nothing orders those of one process with       *)
(* those of the other.                                                      *)

\* existing = read_lines(canonical_file_path)
ReadExisting(p, X) ==
    /\ proc[p].pc = "idle"
    /\ proc' = [proc EXCEPT ![p] =
                   [pc |-> "read", batch |-> X,
                    existing |-> read_lines(canon["subs.txt"])]]
    /\ UNCHANGED <<fileVars, lock>>

\* new_lines = compute_new_lines(existing, candidate_lines);
\* write_lines(delta_path, new_lines)
WriteDelta(p) ==
    /\ proc[p].pc = "read"
    /\ \E new_lines \in {compute_new_lines(proc[p].existing, proc[p].batch)} :
          /\ hist' = [hist EXCEPT ![today]["new_subs.txt"] = write_lines(new_lines)]
          /\ proc' = [proc EXCEPT ![p] = [pc |-> "delta", new_lines |-> new_lines]]
    /\ UNCHANGED <<canon, today, new_count, lastBatch, prevCanon, merged, sameAsPrev,
                   lock>>

\* if new_lines: append_lines(canonical_file_path, new_lines); return
AppendNew(p) ==
    /\ proc[p].pc = "delta"
    /\ canon' = IF proc[p].new_lines # <<>>
                THEN [canon EXCEPT !["subs.txt"] = append_lines(@, proc[p].new_lines)]
                ELSE canon
    /\ proc' = [proc EXCEPT ![p].pc = "returned"]
    /\ UNCHANGED <<hist, today, new_count, lastBatch, prevCanon, merged, sameAsPrev,
                   lock>>

NextRace ==
    \E p \in Procs :
        \/ \E X \in Batches :
              ReadExisting(p, X) /\ UNCHANGED <<limVars, planVars, runVars>>
        \/ WriteDelta(p) /\ UNCHANGED <<limVars, planVars, runVars>>
        \/ AppendNew(p) /\ UNCHANGED <<limVars, planVars, runVars>>

SpecRace == InitMerge /\ [][NextRace]_vars

\* Both calls have returned, and a line is among the new lines of both.
OverlappingDeltas ==
    /\ \A p \in Procs : proc[p].pc = "returned"
    /\ \E p, q \in Procs :
          p # q /\ Range(proc[p].new_lines) \cap Range(proc[q].new_lines) # {}

\* C28: two concurrent calls of merge_into_canonical are not protected
\* against each other: whenever each has read the canonical file before the
\* other has appended a line both batches hold, so that the line is new to
\* both, the canonical file holds that line twice when both have returned.
C28_ConcurrentMergesDuplicate ==
    OverlappingDeltas => ~NoDuplicate(canon["subs.txt"].lines)

\* C28 witness: both calls have returned, the canonical file was without
\* duplicates when they began, and it now holds a line twice that both
\* appended.
C28_Witness ==
    /\ OverlappingDeltas
    /\ \E i, j \in 1..Len(canon["subs.txt"].lines) :
          /\ i < j
          /\ canon["subs.txt"].lines[i] = canon["subs.txt"].lines[j]
          /\ canon["subs.txt"].lines[i] \in Range(proc[1].new_lines)
          /\ canon["subs.txt"].lines[i] \in Range(proc[2].new_lines)

----------------------------------------------------------------------------
(* The delta files within one run (checked under SpecIncr). *)

\* The delta file merge_into_canonical is given with each canonical file.
DeltaOf ==
    [c \in CanonFiles |->
        CASE c = "subs.txt" -> "new_subs.txt"
          [] c = "alive.txt" -> "new_alive.txt"
          [] c = "ports.txt" -> "new_ports.txt"
          [] c = "dirs.txt" -> "new_dirs.txt"
          [] c = "params.txt" -> "new_params.txt"
          [] c = "js.txt" -> "new_js.txt"
          [] c = "secrets.txt" -> "new_secrets.txt"
          [] OTHER -> "new_nuclei.txt"]

\* C29: once a merge of this run has written the delta file of a canonical
\* file, no later stage of the run changes that delta file.
C29_DeltaKeptWithinRun ==
    [][(pc \in Stages /\ today' = today) =>
          \A c \in merges : hist'[today][DeltaOf[c]] = hist[today][DeltaOf[c]]]_vars

----------------------------------------------------------------------------
(* The range of the bucket (checked under SpecLock). *)

\* C30: in every state of the limiter after its construction and any
\* configure_rate_limiter, set_global_rate, set_tool_limit and acquire
\* calls, 0 <= tokens <= burst_capacity.
C30_TokensWithinCapacity ==
    /\ 0 <= limiter.tokens
    /\ limiter.tokens <= limiter.burst_capacity

\* What does hold while every rate is positive: the bucket never holds less
\* than 0 tokens.
TokensNotNegative == 0 <= limiter.tokens

====
